---- MODULE Spec2Model ----
(***************************************************************************)
(* A model of src/src/http.ts: the Request pipeline (Http.request), the    *)
(* Download pipeline (Http.downloadResource), the shared cancellation      *)
(* token (Http.cancel) and the task-injecting callbacks that               *)
(* Http.createResponse attaches to a response (follow, retry,              *)
(* downloadInQueue).                                                       *)
(*                                                                         *)
(* The libraries the file calls are modelled by their documented           *)
(* behaviour: p-retry (pRetry(run, {retries, onFailedAttempt}) calls run,  *)
(* calls onFailedAttempt after every failed attempt, and calls run again   *)
(* while retries are left), p-timeout (rejects with a TimeoutError when    *)
(* the wrapped promise is still pending at the deadline; it does not stop  *)
(* the wrapped operation), promises (only the first resolve/reject call    *)
(* settles a promise) and axios cancel tokens (a request made with a       *)
(* tripped token rejects with a cancellation).                             *)
(***************************************************************************)
EXTENDS Integers, Sequences, FiniteSets, TLC

\* ------------------------------------------------------------------ bounds

\* Largest value of options.retry explored.
MaxRetry == 2
\* How many times the resolvers' answers change during a run.
MaxEpoch == 1
\* Largest number of tasks pending in the scheduler queue.
MaxQueue == 2

\* ------------------------------------------------------------------- data

\* JavaScript's undefined.
Undef == "undefined"

Urls == {"u1", "u2"}

\* The four resolvers of the crawler, in the order request() calls them.
ResolverOrder == <<"proxy", "userAgent", "headers", "auth">>

ResolverKinds == {ResolverOrder[i] : i \in 1..Len(ResolverOrder)}

\* An object with no keys.
EmptyObj == [k \in {} |-> Undef]

\* Object spread {...a, ...b}: b's keys win.
Spread(a, b) ==
  [k \in (DOMAIN a) \cup (DOMAIN b) |-> IF k \in DOMAIN b THEN b[k] ELSE a[k]]

\* An optional object (a proxy, an auth, a headers argument) is the set of
\* its values: None for undefined, Some(x) for x.
None == {}

Some(x) == {x}

The(o) == CHOOSE x \in o : TRUE

\* x || {} for an optional object.
OrEmpty(o) == IF o = None THEN EmptyObj ELSE The(o)

\* delete obj[key]
Delete(obj, key) == [k \in (DOMAIN obj) \ {key} |-> obj[k]]

ProxyValue(e) == [host |-> "proxyhost", port |-> 8000 + e]

UserAgentValue(e) == IF e = 0 THEN "agent-0" ELSE IF e = 1 THEN "agent-1"
                     ELSE IF e = 2 THEN "agent-2" ELSE "agent-3"

HeadersValue(e) == [k \in {"X-Token"} |->
                     IF e = 0 THEN "token-0" ELSE IF e = 1 THEN "token-1"
                     ELSE IF e = 2 THEN "token-2" ELSE "token-3"]

AuthValue(e) == [username |-> "user", password |-> e]

\* resolver.resolve(url, method, body) at epoch e.
Resolve(kind, e) ==
  CASE kind = "proxy" -> Some(ProxyValue(e))
    [] kind = "userAgent" -> Some(UserAgentValue(e))
    [] kind = "headers" -> HeadersValue(e)
    [] kind = "auth" -> Some(AuthValue(e))

\* The value of an array slot of Promise.all whose resolver is not configured.
Unconfigured(kind) == IF kind = "headers" THEN EmptyObj ELSE None

\* The merge as it would be if the task's headers were spread after the
\* headers resolver's.
MergeHeadersCallerLast(url, providerHeaders, httpHeaders, _headers, _userAgent) ==
  Spread(Spread(Spread(Spread([k \in {"Reference"} |-> url],
                              OrEmpty(providerHeaders)),
                       _headers),
                OrEmpty(httpHeaders)),
         IF _userAgent = None THEN EmptyObj
         ELSE [k \in {"User-Agent"} |-> The(_userAgent)])

\* The headers of the request config.
MergeHeaders(url, providerHeaders, httpHeaders, _headers, _userAgent) ==
  Spread(Spread(Spread(Spread([k \in {"Reference"} |-> url],
                              OrEmpty(providerHeaders)),
                       OrEmpty(httpHeaders)),
                _headers),
         IF _userAgent = None THEN EmptyObj
         ELSE [k \in {"User-Agent"} |-> The(_userAgent)])

\* const config = {...}
BuildConfig(url, method, body, httpHeaders, providerHeaders, vals) ==
  [url |-> url,
   method |-> method,
   proxy |-> vals["proxy"],
   data |-> body,
   auth |-> vals["auth"],
   headers |-> MergeHeaders(url, providerHeaders, httpHeaders,
                            vals["headers"], vals["userAgent"])]

\* ------------------------------------------------------------------ state

VARIABLES
  retry,        \* crawler.options.retry
  hasHook,      \* whether provider.beforeRequest is set
  resolvers,    \* the resolvers the crawler has (proxy, userAgent, headers, auth)
  defaultHeaders, \* provider.defaultHeaders
  epoch,        \* how many times the resolvers' answers have changed
  cancelled,    \* whether this.source's token is tripped
  \* one call of Http.request
  rpc,          \* where the call is
  rArgs,        \* its arguments
  rNext,        \* index in ResolverOrder of the resolver call to make next
  rAwait,       \* whether that resolver call is started and awaited
  rVals,        \* [_proxy, _userAgent, _headers, _auth]
  rCalls,       \* how many times each resolver was called by this request
  rStarts,      \* resolver calls in the order they started and completed
  config,       \* the request config
  rHookCalls,   \* calls of provider.beforeRequest
  rHookAt,      \* the number of attempts made when the hook last ran
  rAttempts,    \* calls of run, i.e. of axios.request
  rNotified,    \* calls of onFailedAttempt
  rUsed,        \* the config of the last network call
  rEpochAt,     \* the epoch when the last network call started
  rErr,         \* how the last failed attempt failed
  rAtCancel,    \* whether a network call was in flight when cancel() ran
  rResult,      \* the response returned, or the error thrown
  \* one call of Http.downloadResource
  dpc,          \* where the call is
  dAttempts,    \* calls of run, i.e. of download(url, undefined, options)
  dNotified,    \* calls of onFailedAttempt
  dError,       \* run's variable `error`
  dP,           \* the promise p of the attempt: pending, ok, or the error it rejected with
  dOut,         \* pTimeout(p, timeout): pending, ok, or the error it rejected with
  dSeen,        \* the attempt's events so far, in order: src, dst, finish, timeout
  dAtCancel,    \* whether an attempt was in flight when cancel() ran
  dSettledAfterCancel, \* how that attempt ended
  dLogged,      \* calls of logger.error("download ... failed")
  dOrphans,     \* streams of earlier attempts still running
  dResult,      \* pending, ok, or the error downloadResource rejected with
  \* one Response built by createResponse, and the crawler around it
  active,       \* crawler.active
  queue,        \* the tasks pushed to crawler.scheduler and not yet taken
  response,     \* the AxiosResponse the callbacks close over
  lastOp,       \* the last operation on the response or the queue
  lastActive,   \* crawler.active when it was called
  lastBefore,   \* the queue when it was called
  lastNextUrl,  \* the argument of the last follow
  lastOptions,  \* the options of the last downloadInQueue
  concurrencyLimit, \* the concurrency ceiling of the run
  inFlightCount,    \* the scheduler's count of pipeline executions in flight
  flying,           \* the pipeline executions in flight
  started,          \* how many tasks the scheduler has popped
  executed,         \* the executions that completed, in completion order
  finished          \* the scheduler has declared the crawl done

reqVars == <<rpc, rArgs, rNext, rAwait, rVals, rCalls, rStarts, config,
             rHookCalls, rHookAt, rAttempts, rNotified, rUsed, rEpochAt, rErr,
             rAtCancel, rResult>>

optVars == <<retry, hasHook, resolvers, defaultHeaders>>

dlVars == <<dpc, dAttempts, dNotified, dError, dP, dOut, dSeen, dAtCancel,
            dSettledAfterCancel, dLogged, dOrphans, dResult>>

ctxVars == <<active, queue, response, lastOp, lastActive, lastBefore,
             lastNextUrl, lastOptions>>

schedVars == <<concurrencyLimit, inFlightCount, flying, started, executed,
               finished>>

vars == <<optVars, epoch, cancelled, reqVars, dlVars, ctxVars, schedVars>>

\* --------------------------------------------------------- request pipeline

ProviderHeaders == {None, Some([k \in {"Accept"} |-> "*/*"])}

\* The Request tasks a run is given.
RequestArgs ==
  {[url |-> "u1", method |-> "GET", body |-> Undef, httpHeaders |-> None],
   [url |-> "u2", method |-> "POST", body |-> "payload",
    httpHeaders |-> Some([k \in {"Accept"} |-> "text/html"])]}

NoVals == [k \in ResolverKinds |-> Unconfigured(k)]

NoConfig == BuildConfig(Undef, Undef, Undef, None, None, NoVals)

NoResult == [status |-> "pending", config |-> NoConfig, error |-> Undef]

InitReq ==
  /\ rpc = "idle"
  /\ rArgs = [url |-> Undef, method |-> Undef, body |-> Undef, httpHeaders |-> None]
  /\ rNext = 1
  /\ rAwait = FALSE
  /\ rVals = NoVals
  /\ rCalls = [k \in ResolverKinds |-> 0]
  /\ rStarts = <<>>
  /\ config = NoConfig
  /\ rHookCalls = 0
  /\ rHookAt = 0
  /\ rAttempts = 0
  /\ rNotified = 0
  /\ rUsed = NoConfig
  /\ rEpochAt = 0
  /\ rErr = Undef
  /\ rAtCancel = FALSE
  /\ rResult = NoResult

InitOpts ==
  /\ retry \in 0..MaxRetry
  /\ hasHook \in BOOLEAN
  /\ resolvers \in SUBSET ResolverKinds
  /\ defaultHeaders \in ProviderHeaders

\* The resolvers change their answers (a rotating proxy or user agent).
Rotate ==
  /\ epoch < MaxEpoch
  /\ epoch' = epoch + 1
  /\ UNCHANGED <<schedVars, optVars, cancelled, reqVars, dlVars, ctxVars>>

\* The two pipelines share nothing but the cancel token, which only
\* Http.cancel writes: a run of the model follows one task, a Request or a
\* Download, through its pipeline.
NoTask == rpc = "idle" /\ dpc = "idle"

\* Http.request is called: up to the first await.
Request(url, method, body, httpHeaders) ==
  /\ NoTask
  /\ rpc' = "resolve"
  /\ rArgs' = [url |-> url, method |-> method, body |-> body,
               httpHeaders |-> httpHeaders]
  /\ UNCHANGED <<dlVars, ctxVars>>
  /\ UNCHANGED <<schedVars, optVars, epoch, cancelled, rNext, rAwait, rVals, rCalls,
                 rStarts, config, rHookCalls, rHookAt, rAttempts, rNotified,
                 rUsed, rEpochAt, rErr, rAtCancel, rResult>>

\* One element of the array handed to Promise.all: `r ? await r.resolve() : d`.
\* The await is inside the array literal, so the next element is not
\* evaluated until this call has completed.
ResolverStart ==
  /\ rpc = "resolve"
  /\ rNext <= Len(ResolverOrder)
  /\ ~rAwait
  /\ LET k == ResolverOrder[rNext] IN
       IF k \in resolvers
       THEN /\ rAwait' = TRUE
            /\ rCalls' = [rCalls EXCEPT ![k] = @ + 1]
            /\ rStarts' = Append(rStarts, <<"start", k>>)
            /\ UNCHANGED <<rNext, rVals>>
       ELSE /\ rNext' = rNext + 1
            /\ rVals' = [rVals EXCEPT ![k] = Unconfigured(k)]
            /\ UNCHANGED <<rAwait, rCalls, rStarts>>
  /\ UNCHANGED <<dlVars, ctxVars>>
  /\ UNCHANGED <<schedVars, optVars, epoch, cancelled, rpc, rArgs, config, rHookCalls,
                 rHookAt, rAttempts, rNotified, rUsed, rEpochAt, rErr,
                 rAtCancel, rResult>>

ResolverDone ==
  /\ rpc = "resolve"
  /\ rAwait
  /\ LET k == ResolverOrder[rNext] IN
       /\ rVals' = [rVals EXCEPT ![k] = Resolve(k, epoch)]
       /\ rStarts' = Append(rStarts, <<"done", k>>)
  /\ rAwait' = FALSE
  /\ rNext' = rNext + 1
  /\ UNCHANGED <<dlVars, ctxVars>>
  /\ UNCHANGED <<schedVars, optVars, epoch, cancelled, rpc, rArgs, rCalls, config,
                 rHookCalls, rHookAt, rAttempts, rNotified, rUsed, rEpochAt,
                 rErr, rAtCancel, rResult>>

\* Promise.all has settled: the config is built.
MakeConfig ==
  /\ rpc = "resolve"
  /\ rNext > Len(ResolverOrder)
  /\ config' = BuildConfig(rArgs.url, rArgs.method, rArgs.body,
                           rArgs.httpHeaders, defaultHeaders, rVals)
  /\ rpc' = IF hasHook THEN "hook" ELSE "retrying"
  /\ UNCHANGED <<dlVars, ctxVars>>
  /\ UNCHANGED <<schedVars, optVars, epoch, cancelled, rArgs, rNext, rAwait, rVals,
                 rCalls, rStarts, rHookCalls, rHookAt, rAttempts, rNotified,
                 rUsed, rEpochAt, rErr, rAtCancel, rResult>>

\* What provider.beforeRequest may do to the config it is handed.
HookEdits == {"none", "accept"}

ApplyHook(cfg, edit) ==
  IF edit = "none" THEN cfg
  ELSE [cfg EXCEPT !.headers = Spread(@, [k \in {"Accept"} |-> "hooked"])]

\* await provider.beforeRequest(config)
BeforeRequest(edit) ==
  /\ rpc = "hook"
  /\ config' = ApplyHook(config, edit)
  /\ rHookCalls' = rHookCalls + 1
  /\ rHookAt' = rAttempts
  /\ rpc' = "retrying"
  /\ UNCHANGED <<dlVars, ctxVars>>
  /\ UNCHANGED <<schedVars, optVars, epoch, cancelled, rArgs, rNext, rAwait, rVals,
                 rCalls, rStarts, rAttempts, rNotified, rUsed, rEpochAt, rErr,
                 rAtCancel, rResult>>

\* p-retry: after attempt number n of a run with `retries`, whether run is
\* called again.
RetriesLeftOffByOne(n, retries) == n < retries

RetriesLeft(n, retries) == n <= retries

\* p-retry calls onFailedAttempt after every failed attempt, the last one
\* included (error.retriesLeft is then 0): the number of calls after one more.
onFailedAttemptOnlyBeforeRetry(calls, retriesLeft) ==
  IF retriesLeft THEN calls + 1 ELSE calls

onFailedAttempt(calls, retriesLeft) == calls + 1

\* run() as it would be if each attempt resolved the resolvers again.
runResolving ==
  /\ rpc = "retrying"
  /\ rAttempts' = rAttempts + 1
  /\ rCalls' = [k \in ResolverKinds |->
                  IF k \in resolvers THEN rCalls[k] + 1 ELSE rCalls[k]]
  /\ rVals' = [k \in ResolverKinds |->
                 IF k \in resolvers THEN Resolve(k, epoch) ELSE Unconfigured(k)]
  /\ config' = BuildConfig(rArgs.url, rArgs.method, rArgs.body,
                           rArgs.httpHeaders, defaultHeaders, rVals')
  /\ rUsed' = config'
  /\ rEpochAt' = epoch
  /\ rpc' = "inflight"
  /\ UNCHANGED <<dlVars, ctxVars>>
  /\ UNCHANGED <<schedVars, optVars, epoch, cancelled, rArgs, rNext, rAwait, rStarts,
                 rHookCalls, rHookAt, rNotified, rErr, rAtCancel, rResult>>

\* run() as it would be if each attempt called provider.beforeRequest.
runHooked ==
  /\ rpc = "retrying"
  /\ rAttempts' = rAttempts + 1
  /\ rHookCalls' = IF hasHook /\ rAttempts > 0 THEN rHookCalls + 1 ELSE rHookCalls
  /\ rHookAt' = IF hasHook THEN rAttempts ELSE rHookAt
  /\ rUsed' = config
  /\ rEpochAt' = epoch
  /\ rpc' = "inflight"
  /\ UNCHANGED <<dlVars, ctxVars>>
  /\ UNCHANGED <<schedVars, optVars, epoch, cancelled, rArgs, rNext, rAwait, rVals,
                 rCalls, rStarts, config, rNotified, rErr, rAtCancel, rResult>>

\* run(): the network call axios.request(config) starts.
run ==
  /\ rpc = "retrying"
  /\ rAttempts' = rAttempts + 1
  /\ rUsed' = config
  /\ rEpochAt' = epoch
  /\ rpc' = "inflight"
  /\ UNCHANGED <<dlVars, ctxVars>>
  /\ UNCHANGED <<schedVars, optVars, epoch, cancelled, rArgs, rNext, rAwait, rVals,
                 rCalls, rStarts, config, rHookCalls, rHookAt, rNotified,
                 rErr, rAtCancel, rResult>>

\* How one network attempt can fail: axios rejects, p-timeout's deadline
\* passes, or the cancel token is tripped.
FailureKinds == {"network", "timeout", "cancel"}

\* The attempt as it would be if its request did not carry the cancel token.
AttemptOkIgnoringToken ==
  /\ rpc = "inflight"
  /\ rResult' = [status |-> "response", config |-> rUsed, error |-> Undef]
  /\ rpc' = "ok"
  /\ UNCHANGED <<dlVars, ctxVars>>
  /\ UNCHANGED <<schedVars, optVars, epoch, cancelled, rArgs, rNext, rAwait, rVals,
                 rCalls, rStarts, config, rHookCalls, rHookAt, rAttempts,
                 rNotified, rUsed, rEpochAt, rErr, rAtCancel>>

\* The success as it would be if p-retry ran run once more after it.
AttemptOkRunsAgain ==
  /\ rpc = "inflight"
  /\ ~cancelled
  /\ rResult' = [status |-> "response", config |-> rUsed, error |-> Undef]
  /\ rpc' = IF RetriesLeft(rAttempts, retry) THEN "retrying" ELSE "ok"
  /\ UNCHANGED <<dlVars, ctxVars>>
  /\ UNCHANGED <<schedVars, optVars, epoch, cancelled, rArgs, rNext, rAwait, rVals,
                 rCalls, rStarts, config, rHookCalls, rHookAt, rAttempts,
                 rNotified, rUsed, rEpochAt, rErr, rAtCancel>>

\* The attempt's promise resolves: createResponse(res) is returned.
AttemptOk ==
  /\ rpc = "inflight"
  /\ ~cancelled
  /\ rResult' = [status |-> "response", config |-> rUsed, error |-> Undef]
  /\ rpc' = "ok"
  /\ UNCHANGED <<dlVars, ctxVars>>
  /\ UNCHANGED <<schedVars, optVars, epoch, cancelled, rArgs, rNext, rAwait, rVals,
                 rCalls, rStarts, config, rHookCalls, rHookAt, rAttempts,
                 rNotified, rUsed, rEpochAt, rErr, rAtCancel>>

\* The failure as it would be if a timeout ended the retries at once.
AttemptFailTimeoutFatal(kind) ==
  /\ rpc = "inflight"
  /\ IF cancelled THEN kind = "cancel" ELSE kind # "cancel"
  /\ rErr' = kind
  /\ rNotified' = onFailedAttempt(rNotified, RetriesLeft(rAttempts, retry))
  /\ IF RetriesLeft(rAttempts, retry) /\ kind # "timeout"
     THEN rpc' = "retrying" /\ UNCHANGED rResult
     ELSE /\ rpc' = "failed"
          /\ rResult' = [status |-> "error", config |-> NoConfig, error |-> kind]
  /\ UNCHANGED <<dlVars, ctxVars>>
  /\ UNCHANGED <<schedVars, optVars, epoch, cancelled, rArgs, rNext, rAwait, rVals,
                 rCalls, rStarts, config, rHookCalls, rHookAt, rAttempts,
                 rUsed, rEpochAt, rAtCancel>>

\* The attempt's promise rejects: p-retry calls onFailedAttempt, then either
\* schedules the next call of run or rejects with the error.
AttemptFail(kind) ==
  /\ rpc = "inflight"
  /\ IF cancelled THEN kind = "cancel" ELSE kind # "cancel"
  /\ rErr' = kind
  /\ rNotified' = onFailedAttempt(rNotified, RetriesLeft(rAttempts, retry))
  /\ IF RetriesLeft(rAttempts, retry)
     THEN rpc' = "retrying" /\ UNCHANGED rResult
     ELSE /\ rpc' = "failed"
          /\ rResult' = [status |-> "error", config |-> NoConfig, error |-> kind]
  /\ UNCHANGED <<dlVars, ctxVars>>
  /\ UNCHANGED <<schedVars, optVars, epoch, cancelled, rArgs, rNext, rAwait, rVals,
                 rCalls, rStarts, config, rHookCalls, rHookAt, rAttempts,
                 rUsed, rEpochAt, rAtCancel>>

\* Http.cancel(): this.source.cancel(...)
Cancel ==
  /\ ~cancelled
  /\ cancelled' = TRUE
  /\ rAtCancel' = (rpc = "inflight")
  /\ dAtCancel' = (dpc = "inflight" /\ dOut = "pending")
  /\ UNCHANGED <<dpc, dAttempts, dNotified, dError, dP, dOut, dSeen,
                 dSettledAfterCancel, dLogged, dOrphans, dResult>>
  /\ UNCHANGED ctxVars
  /\ UNCHANGED <<schedVars, optVars, epoch, rpc, rArgs, rNext, rAwait, rVals, rCalls,
                 rStarts, config, rHookCalls, rHookAt, rAttempts, rNotified,
                 rUsed, rEpochAt, rErr, rResult>>

\* -------------------------------------------------------- download pipeline

InitDl ==
  /\ dpc = "idle"
  /\ dAttempts = 0
  /\ dNotified = 0
  /\ dError = Undef
  /\ dP = "pending"
  /\ dOut = "pending"
  /\ dSeen = <<>>
  /\ dAtCancel = FALSE
  /\ dSettledAfterCancel = Undef
  /\ dLogged = 0
  /\ dOrphans = 0
  /\ dResult = "pending"

\* A promise as it would be if a later resolve or reject settled it again.
SettleAgain(p, v) == v

\* resolve(v) or reject(v) on a promise: only the first call settles it.
Settle(p, v) == IF p = "pending" THEN v ELSE p

Seen(ev) == \E i \in 1..Len(dSeen) : dSeen[i] = ev

\* Http.downloadResource is called: await fs.ensureDir(...), then pRetry(run).
DownloadResource ==
  /\ NoTask
  /\ dpc' = "retrying"
  /\ UNCHANGED <<dAttempts, dNotified, dError, dP, dOut, dSeen, dAtCancel,
                 dSettledAfterCancel, dLogged, dOrphans, dResult>>
  /\ UNCHANGED <<schedVars, optVars, epoch, cancelled, reqVars, ctxVars>>

\* The streams that run() leaves behind: pTimeout rejects at the deadline but
\* holds no handle on the download stream or the write stream, so an attempt
\* that timed out before any stream event leaves both running.
StreamsLeftRunning ==
  IF dOut = "timeout" /\ ~Seen("src") /\ ~Seen("dst") /\ ~Seen("finish")
  THEN 1 ELSE 0

\* run(): a new promise p, a new `error`, the stream piped to the file, and
\* pTimeout(p, timeout).
dlRun ==
  /\ dpc = "retrying"
  /\ dAttempts' = dAttempts + 1
  /\ dError' = Undef
  /\ dP' = "pending"
  /\ dOut' = "pending"
  /\ dSeen' = <<>>
  /\ dpc' = "inflight"
  /\ dOrphans' = dOrphans + StreamsLeftRunning
  /\ UNCHANGED <<dNotified, dAtCancel, dSettledAfterCancel, dLogged, dResult>>
  /\ UNCHANGED <<schedVars, optVars, epoch, cancelled, reqVars, ctxVars>>

\* How the attempt of an in-flight download at cancel() ended.
AfterCancel(out) ==
  IF dAtCancel /\ dSettledAfterCancel = Undef /\ dOut = "pending" /\ out # "pending"
  THEN out ELSE dSettledAfterCancel

\* stream.catch(err => { error = err; reject(err); })
SrcErrorNoReject ==
  /\ dError' = "src"
  /\ UNCHANGED dP

SrcErrorHandler ==
  /\ dError' = "src"
  /\ dP' = Settle(dP, "src")

\* .once("error", err => { if (!error) { error = err; reject(err); } })
DstErrorHandler ==
  IF dError = Undef
  THEN /\ dError' = "dst"
       /\ dP' = Settle(dP, "dst")
  ELSE UNCHANGED <<dError, dP>>

\* .once("finish", () => { if (!error) { resolve(); } })
FinishHandler ==
  /\ dP' = IF dError = Undef THEN Settle(dP, "ok") ELSE dP
  /\ UNCHANGED dError

\* One event of the attempt's streams; each handler runs at most once.
StreamEvent(ev) ==
  /\ dpc = "inflight"
  /\ ~Seen(ev)
  /\ CASE ev = "src" -> SrcErrorHandler
       [] ev = "dst" -> DstErrorHandler
       [] ev = "finish" -> FinishHandler
  /\ dSeen' = Append(dSeen, ev)
  \* pTimeout's promise follows p while the deadline has not passed
  /\ dOut' = Settle(dOut, dP')
  /\ dSettledAfterCancel' = AfterCancel(dOut')
  /\ UNCHANGED <<dpc, dAttempts, dNotified, dAtCancel, dLogged, dOrphans,
                 dResult>>
  /\ UNCHANGED <<schedVars, optVars, epoch, cancelled, reqVars, ctxVars>>

\* pTimeout's deadline passes with p pending: it rejects with a TimeoutError.
\* The streams of the attempt keep running.
DlTimeout ==
  /\ dpc = "inflight"
  /\ dOut = "pending"
  /\ dOut' = "timeout"
  /\ dSeen' = Append(dSeen, "timeout")
  /\ dSettledAfterCancel' = AfterCancel(dOut')
  /\ UNCHANGED <<dpc, dAttempts, dNotified, dError, dP, dAtCancel, dLogged,
                 dOrphans,
                 dResult>>
  /\ UNCHANGED <<schedVars, optVars, epoch, cancelled, reqVars, ctxVars>>

\* The streams of an earlier attempt come to their end, by finish or by error;
\* their handlers find the promise of that attempt already left behind.
OrphanEnds ==
  /\ dOrphans > 0
  /\ dOrphans' = dOrphans - 1
  /\ UNCHANGED <<dpc, dAttempts, dNotified, dError, dP, dOut, dSeen, dAtCancel,
                 dSettledAfterCancel, dLogged, dResult>>
  /\ UNCHANGED <<schedVars, optVars, epoch, cancelled, reqVars, ctxVars>>

\* p-retry takes the attempt's success: downloadResource resolves.
DlAttemptOk ==
  /\ dpc = "inflight"
  /\ dOut = "ok"
  /\ dpc' = "ok"
  /\ dResult' = "ok"
  /\ UNCHANGED <<dAttempts, dNotified, dError, dP, dOut, dSeen, dAtCancel,
                 dSettledAfterCancel, dLogged, dOrphans>>
  /\ UNCHANGED <<schedVars, optVars, epoch, cancelled, reqVars, ctxVars>>

\* p-retry takes the attempt's failure: onFailedAttempt, then the next call
\* of run, or the rejection that .catch logs and passes on.
DlAttemptFail ==
  /\ dpc = "inflight"
  /\ dOut \notin {"pending", "ok"}
  /\ dNotified' = onFailedAttempt(dNotified, RetriesLeft(dAttempts, retry))
  /\ IF RetriesLeft(dAttempts, retry)
     THEN /\ dpc' = "retrying"
          /\ UNCHANGED <<dLogged, dResult>>
     ELSE /\ dpc' = "failed"
          /\ dLogged' = dLogged + 1
          /\ dResult' = dOut
  /\ UNCHANGED <<dAttempts, dError, dP, dOut, dSeen, dAtCancel,
                 dSettledAfterCancel, dOrphans>>
  /\ UNCHANGED <<schedVars, optVars, epoch, cancelled, reqVars, ctxVars>>

\* -------------------------------------------------------- response context

\* new Task(type, method, url, body, headers); a download's body
\* {filepath, options} is kept in two fields of its own.
Task(type, method, url, body, headers) ==
  [type |-> type, method |-> method, url |-> url, body |-> body,
   headers |-> headers, filepath |-> Undef, options |-> None]

DownloadTask(url, filepath, options) ==
  [Task("download", "GET", url, Undef, None)
     EXCEPT !.filepath = filepath, !.options = options]

\* scheduler.push(task)
push(q, task) == Append(q, task)

\* The argument of follow: a string, or a UrlCustomer object.
NoNextUrl == [form |-> "string", url |-> "", method |-> Undef, body |-> Undef,
              headers |-> None]

NextUrls ==
  {NoNextUrl,
   [NoNextUrl EXCEPT !.url = "u2"],
   [form |-> "object", url |-> "u2", method |-> "POST", body |-> "payload",
    headers |-> None],
   [form |-> "object", url |-> "u1", method |-> Undef, body |-> Undef,
    headers |-> Some([k \in {"Accept"} |-> "text/html"])],
   [form |-> "object", url |-> "u2", method |-> "GET", body |-> Undef,
    headers |-> Some([k \in {"Reference"} |-> "elsewhere"])]}

\* JavaScript truthiness of the argument: every object, every non-empty string.
Truthy(nextUrl) == nextUrl.form = "object" \/ nextUrl.url # ""

\* The options a caller hands to downloadInQueue.
CallerProxy == <<"callerproxy", ":", 3128>>

DownloadOptions ==
  {None,
   Some([k \in {"proxy"} |-> Some(CallerProxy)]),
   Some([k \in {"headers"} |-> [h \in {"Accept"} |-> "image/png"]]),
   Some([k \in {"headers"} |-> [h \in {"Cookie"} |-> "c=1"]])}

\* if (this.crawler.active && nextUrl)
FollowGuardNoActive(nextUrl) == Truthy(nextUrl)

FollowGuard(nextUrl) == active /\ Truthy(nextUrl)

\* follow as it would be if the default Reference header won over the caller's.
FollowTaskDefaultWins(nextUrl) ==
  LET headers == [k \in {"Reference"} |-> response.config.url] IN
    IF nextUrl.form = "string"
    THEN Task("request", "GET", nextUrl.url, Undef, Some(headers))
    ELSE Task("request", nextUrl.method, nextUrl.url, nextUrl.body,
              Some(Spread(OrEmpty(nextUrl.headers), headers)))

\* The task follow builds.
FollowTask(nextUrl) ==
  LET headers == [k \in {"Reference"} |-> response.config.url] IN
    IF nextUrl.form = "string"
    THEN Task("request", "GET", nextUrl.url, Undef, Some(headers))
    ELSE Task("request", nextUrl.method, nextUrl.url, nextUrl.body,
              Some(Spread(headers, OrEmpty(nextUrl.headers))))

\* $.follow(nextUrl)
Follow(nextUrl) ==
  /\ response.status = "response"
  /\ Len(queue) < MaxQueue
  /\ queue' = IF FollowGuard(nextUrl) THEN push(queue, FollowTask(nextUrl))
              ELSE queue
  /\ lastOp' = "follow"
  /\ lastActive' = active
  /\ lastBefore' = queue
  /\ lastNextUrl' = nextUrl
  /\ UNCHANGED <<active, response, lastOptions>>
  /\ UNCHANGED <<schedVars, optVars, epoch, cancelled, reqVars, dlVars>>

\* retry as it would be if it re-derived the task as a plain GET of the url.
RetryTaskPlainGet ==
  Task("request", "GET", response.config.url, Undef,
       Some([k \in {"Reference"} |-> response.config.url]))

\* The task $.retry builds.
RetryTask ==
  Task("request",
       IF response.config.method = Undef THEN "GET" ELSE response.config.method,
       response.config.url, response.config.data,
       Some(response.config.headers))

\* $.retry()
Retry ==
  /\ response.status = "response"
  /\ Len(queue) < MaxQueue
  /\ queue' = push(queue, RetryTask)
  /\ lastOp' = "retry"
  /\ lastActive' = active
  /\ lastBefore' = queue
  /\ UNCHANGED <<active, response, lastNextUrl, lastOptions>>
  /\ UNCHANGED <<schedVars, optVars, epoch, cancelled, reqVars, dlVars>>

\* const pureHeaders = { ...response.config.headers }; delete pureHeaders["Accept"]
PureHeadersKeepAccept == response.config.headers

PureHeaders == Delete(response.config.headers, "Accept")

\* _proxy ? _proxy.host + ":" + _proxy.port : undefined
ProxyString ==
  IF response.config.proxy = None THEN None
  ELSE Some(<<The(response.config.proxy).host, ":",
              The(response.config.proxy).port>>)

\* const _options = { headers: pureHeaders, proxy, ...(options || {}) }
DownloadInQueueOptions(options) ==
  Spread([k \in {"headers", "proxy"} |->
            IF k = "headers" THEN PureHeaders ELSE ProxyString],
         OrEmpty(options))

\* Http.download(url, filepath, options)
download(q, url, filepath, options) ==
  push(q, DownloadTask(url, filepath, Some(options)))

\* $.downloadInQueue(url, filepath, options)
DownloadInQueue(url, filepath, options) ==
  /\ response.status = "response"
  /\ Len(queue) < MaxQueue
  /\ queue' = download(queue, url, filepath, DownloadInQueueOptions(options))
  /\ lastOp' = "downloadInQueue"
  /\ lastActive' = active
  /\ lastBefore' = queue
  /\ lastOptions' = options
  /\ UNCHANGED <<active, response, lastNextUrl>>
  /\ UNCHANGED <<schedVars, optVars, epoch, cancelled, reqVars, dlVars>>

\* The crawler is stopped: crawler.active becomes false.
Stop ==
  /\ active
  /\ active' = FALSE
  /\ lastOp' = "stop"
  /\ UNCHANGED <<queue, response, lastActive, lastBefore, lastNextUrl,
                 lastOptions>>
  /\ UNCHANGED <<schedVars, optVars, epoch, cancelled, reqVars, dlVars>>

\* The scheduler takes the task at the head of the queue.
Dispatch ==
  /\ queue # <<>>
  /\ queue' = Tail(queue)
  /\ lastOp' = "dispatch"
  /\ UNCHANGED <<active, response, lastActive, lastBefore, lastNextUrl,
                 lastOptions>>
  /\ UNCHANGED <<schedVars, optVars, epoch, cancelled, reqVars, dlVars>>

\* -------------------------------------------------------------- scheduler

MaxConcurrency == 2

\* The tasks of one crawl run, seeded and injected together.
MaxTasks == 4

\* The scheduler before a crawl.
InitSchedIdle ==
  /\ concurrencyLimit = 1
  /\ inFlightCount = 0
  /\ flying = {}
  /\ started = 0
  /\ executed = <<>>
  /\ finished = FALSE

\* The tasks the crawler seeds the queue with.
Seeds ==
  {<<Task("request", "GET", "u1", Undef, None)>>,
   <<Task("request", "GET", "u1", Undef, None),
     Task("request", "GET", "u2", Undef, None)>>}

\* The response of a Request task whose pipeline succeeded.
ResponseOf(task) ==
  [status |-> "response",
   config |-> BuildConfig(task.url, task.method, task.body, task.headers,
                          defaultHeaders, NoVals),
   error |-> Undef]

\* Dispatch as it would be without the concurrency ceiling.
SchedDispatchNoCeiling ==
  /\ ~finished
  /\ active
  /\ queue # <<>>
  /\ queue' = Tail(queue)
  /\ inFlightCount' = inFlightCount + 1
  /\ started' = started + 1
  /\ flying' = flying \cup {[id |-> started + 1, task |-> Head(queue),
                              phase |-> "pipeline"]}
  /\ lastOp' = "dispatch"
  /\ UNCHANGED <<active, response, lastActive, lastBefore, lastNextUrl,
                 lastOptions>>
  /\ UNCHANGED <<concurrencyLimit, executed, finished>>
  /\ UNCHANGED <<optVars, epoch, cancelled, reqVars, dlVars>>

\* A scheduling opportunity with headroom and a task waiting: pop a task,
\* count it in flight and start its pipeline without waiting for it. The
\* interval throttle only delays the opportunity and is left out.
SchedDispatch ==
  /\ ~finished
  /\ active
  /\ inFlightCount < concurrencyLimit
  /\ queue # <<>>
  /\ queue' = Tail(queue)
  /\ inFlightCount' = inFlightCount + 1
  /\ started' = started + 1
  /\ flying' = flying \cup {[id |-> started + 1, task |-> Head(queue),
                              phase |-> "pipeline"]}
  /\ lastOp' = "dispatch"
  /\ UNCHANGED <<active, response, lastActive, lastBefore, lastNextUrl,
                 lastOptions>>
  /\ UNCHANGED <<concurrencyLimit, executed, finished>>
  /\ UNCHANGED <<optVars, epoch, cancelled, reqVars, dlVars>>

\* Http.request of a Request task in flight resolves with its response: the
\* extraction callback is entered.
PipelineResponds(f) ==
  /\ f \in flying
  /\ f.phase = "pipeline"
  /\ f.task.type = "request"
  /\ flying' = (flying \ {f}) \cup {[f EXCEPT !.phase = "callback"]}
  /\ UNCHANGED <<concurrencyLimit, inFlightCount, started, executed, finished>>
  /\ UNCHANGED ctxVars
  /\ UNCHANGED <<optVars, epoch, cancelled, reqVars, dlVars>>

\* The extraction callback of a task in flight runs, or resumes after an
\* await, with the response $ it was given.
Parse(f) ==
  /\ f \in flying
  /\ f.phase = "callback"
  /\ response # ResponseOf(f.task)
  /\ response' = ResponseOf(f.task)
  /\ UNCHANGED <<active, queue, lastOp, lastActive, lastBefore, lastNextUrl,
                 lastOptions>>
  /\ UNCHANGED schedVars
  /\ UNCHANGED <<optVars, epoch, cancelled, reqVars, dlVars>>

\* The running callback belongs to a task in flight, and the run has tasks
\* left to inject.
MayInject ==
  /\ \E f \in flying : f.phase = "callback" /\ ResponseOf(f.task) = response
  /\ started + Len(queue) < MaxTasks

\* The callback calls $.follow, $.retry or $.downloadInQueue.
ParseFollows(nextUrl) == MayInject /\ Follow(nextUrl)

ParseRetries == MayInject /\ Retry

ParseDownloads(url, filepath) == MayInject /\ DownloadInQueue(url, filepath, None)

\* The pipeline execution of a task in flight completes: by the return of its
\* callback, by the end of its download, or by a failure with the retries
\* exhausted. The scheduler counts it out.
Completion(f, outcome) ==
  /\ f \in flying
  /\ \/ f.phase = "callback" /\ outcome = "ok"
     \/ f.phase = "pipeline" /\ f.task.type = "download" /\ outcome = "ok"
     \/ f.phase = "pipeline" /\ outcome = "failed"
  /\ flying' = flying \ {f}
  /\ inFlightCount' = inFlightCount - 1
  /\ executed' = Append(executed, [id |-> f.id, outcome |-> outcome])
  /\ response' = IF f.phase = "callback" /\ response = ResponseOf(f.task)
                 THEN NoResult ELSE response
  /\ UNCHANGED <<active, queue, lastOp, lastActive, lastBefore, lastNextUrl,
                 lastOptions>>
  /\ UNCHANGED <<concurrencyLimit, started, finished>>
  /\ UNCHANGED <<optVars, epoch, cancelled, reqVars, dlVars>>

\* The stop condition as it would be if it looked at the queue alone.
DeclareDoneQueueOnly ==
  /\ ~finished
  /\ started > 0
  /\ queue = <<>>
  /\ finished' = TRUE
  /\ UNCHANGED <<concurrencyLimit, inFlightCount, flying, started, executed>>
  /\ UNCHANGED ctxVars
  /\ UNCHANGED <<optVars, epoch, cancelled, reqVars, dlVars>>

\* The stop condition: the queue is empty and nothing is in flight.
DeclareDone ==
  /\ ~finished
  /\ started > 0
  /\ queue = <<>>
  /\ inFlightCount = 0
  /\ finished' = TRUE
  /\ UNCHANGED <<concurrencyLimit, inFlightCount, flying, started, executed>>
  /\ UNCHANGED ctxVars
  /\ UNCHANGED <<optVars, epoch, cancelled, reqVars, dlVars>>

\* A crawl run at the moment its queue has been seeded.
InitSched ==
  /\ retry = 0
  /\ hasHook = FALSE
  /\ resolvers = {}
  /\ defaultHeaders = None
  /\ epoch = 0
  /\ cancelled = FALSE
  /\ InitReq
  /\ InitDl
  /\ active = TRUE
  /\ queue \in Seeds
  /\ response = NoResult
  /\ lastOp = "none"
  /\ lastActive = TRUE
  /\ lastBefore = <<>>
  /\ lastNextUrl = NoNextUrl
  /\ lastOptions = None
  /\ concurrencyLimit \in 1..MaxConcurrency
  /\ inFlightCount = 0
  /\ flying = {}
  /\ started = 0
  /\ executed = <<>>
  /\ finished = FALSE

NextSched ==
  \/ SchedDispatch
  \/ \E f \in flying : PipelineResponds(f)
  \/ \E f \in flying : Parse(f)
  \/ \E nextUrl \in {NoNextUrl, [NoNextUrl EXCEPT !.url = "u2"]} :
       ParseFollows(nextUrl)
  \/ ParseRetries
  \/ ParseDownloads("u1", "file")
  \/ \E f \in flying, outcome \in {"ok", "failed"} : Completion(f, outcome)
  \/ DeclareDone

SpecSched == InitSched /\ [][NextSched]_vars

\* Pipelines end, callbacks return, and the scheduler gets its opportunities.
SpecSchedFair ==
  /\ SpecSched
  /\ WF_vars(SchedDispatch)
  /\ WF_vars(\E f \in flying, outcome \in {"ok", "failed"} :
               Completion(f, outcome))
  /\ WF_vars(DeclareDone)

\* The values the resolvers give at epoch e, all four configured.
AllVals(e) == [k \in ResolverKinds |-> Resolve(k, e)]

\* The responses createResponse is given: response.config is the config of
\* the request that was answered.
Responses ==
  {[status |-> "response",
    config |-> ApplyHook(BuildConfig(a.url, a.method, a.body, a.httpHeaders,
                                     ph, vals), edit),
    error |-> Undef] :
     a \in RequestArgs, ph \in ProviderHeaders, vals \in {NoVals, AllVals(0)},
     edit \in HookEdits}

InitCtxIdle ==
  /\ active = TRUE
  /\ queue = <<>>
  /\ response = NoResult
  /\ lastOp = "none"
  /\ lastActive = TRUE
  /\ lastBefore = <<>>
  /\ lastNextUrl = NoNextUrl
  /\ lastOptions = None

Init ==
  /\ InitOpts
  /\ epoch = 0
  /\ cancelled = FALSE
  /\ InitReq
  /\ InitDl
  /\ InitCtxIdle
  /\ InitSchedIdle

\* A crawl at the moment a response has been built.
InitCtx ==
  /\ retry = 0
  /\ hasHook = FALSE
  /\ resolvers = {}
  /\ defaultHeaders = None
  /\ epoch = 0
  /\ cancelled = FALSE
  /\ InitReq
  /\ InitDl
  /\ active = TRUE
  /\ queue = <<>>
  /\ response \in Responses
  /\ lastOp = "none"
  /\ lastActive = TRUE
  /\ lastBefore = <<>>
  /\ lastNextUrl = NoNextUrl
  /\ lastOptions = None
  /\ InitSchedIdle

NextCtx ==
  \/ \E nextUrl \in NextUrls : Follow(nextUrl)
  \/ Retry
  \/ \E url \in Urls, options \in DownloadOptions :
       DownloadInQueue(url, "file", options)
  \/ Stop
  \/ Dispatch

SpecCtx == InitCtx /\ [][NextCtx]_vars

\* ------------------------------------------------------------ header merge

\* The header names the five sources of a request's headers may share.
HeaderNames == {"Reference", "User-Agent", "Accept"}

\* Every headers object over HeaderNames whose values name their source.
HeaderMaps(source) == UNION {[S -> {source}] : S \in SUBSET HeaderNames}

OptionalHeaderMaps(source) == {None} \cup {Some(m) : m \in HeaderMaps(source)}

\* The resolver calls of a request whose Promise.all has settled.
StartsOf(configured) ==
  SelectSeq(<<<<"start", "proxy">>, <<"done", "proxy">>,
              <<"start", "userAgent">>, <<"done", "userAgent">>,
              <<"start", "headers">>, <<"done", "headers">>,
              <<"start", "auth">>, <<"done", "auth">>>>,
            LAMBDA c : c[2] \in configured)

\* A Request whose resolvers have all answered, for every combination of
\* provider headers, task headers, headers-resolver answer and user agent.
InitHdr ==
  /\ retry = 0
  /\ hasHook = FALSE
  /\ defaultHeaders \in OptionalHeaderMaps("provider")
  /\ epoch = 0
  /\ cancelled = FALSE
  /\ InitDl
  /\ InitCtxIdle
  /\ InitSchedIdle
  /\ rpc = "resolve"
  /\ \E url \in Urls, h \in OptionalHeaderMaps("caller") :
       rArgs = [url |-> url, method |-> "GET", body |-> Undef, httpHeaders |-> h]
  /\ rNext = Len(ResolverOrder) + 1
  /\ rAwait = FALSE
  /\ \E ua \in {None, Some(UserAgentValue(0))}, rh \in HeaderMaps("resolver") :
       /\ rVals = [NoVals EXCEPT !["userAgent"] = ua, !["headers"] = rh]
       /\ resolvers = {"headers"} \cup (IF ua = None THEN {} ELSE {"userAgent"})
  /\ rCalls = [k \in ResolverKinds |-> IF k \in resolvers THEN 1 ELSE 0]
  /\ rStarts = StartsOf(resolvers)
  /\ config = NoConfig
  /\ rHookCalls = 0
  /\ rHookAt = 0
  /\ rAttempts = 0
  /\ rNotified = 0
  /\ rUsed = NoConfig
  /\ rEpochAt = 0
  /\ rErr = Undef
  /\ rAtCancel = FALSE
  /\ rResult = NoResult

NextHdr ==
  \/ MakeConfig
  \/ run

SpecHdr == InitHdr /\ [][NextHdr]_vars

Next ==
  \/ Rotate
  \/ \E a \in RequestArgs : Request(a.url, a.method, a.body, a.httpHeaders)
  \/ ResolverStart
  \/ ResolverDone
  \/ MakeConfig
  \/ \E edit \in HookEdits : BeforeRequest(edit)
  \/ run
  \/ AttemptOk
  \/ \E kind \in FailureKinds : AttemptFail(kind)
  \/ Cancel
  \/ DownloadResource
  \/ dlRun
  \/ \E ev \in {"src", "dst", "finish"} : StreamEvent(ev)
  \/ DlTimeout
  \/ OrphanEnds
  \/ DlAttemptOk
  \/ DlAttemptFail

Spec == Init /\ [][Next]_vars

\* ------------------------------------------------------------------ claims

\* C1: with retry = r and a network call that fails on every attempt,
\* Http.request makes exactly r + 1 attempts and then fails: never more than
\* r + 1 attempts, no failure before the r + 1st, no stop while attempts are
\* left, and failure once the r + 1st has failed.
C1_ExactlyRetryPlusOneAttempts ==
  /\ rAttempts <= retry + 1
  /\ rpc = "failed" => rAttempts = retry + 1 /\ rResult.status = "error"
  /\ (rAttempts >= 1 /\ rNotified = rAttempts /\ rAttempts < retry + 1)
       => rpc = "retrying"
  /\ (rNotified = rAttempts /\ rAttempts = retry + 1) => rpc = "failed"

C1_Witness ==
  /\ rpc = "failed"
  /\ retry = 2
  /\ rAttempts = 3
  /\ rErr = "network"

\* C2 as stated: a pipeline whose every attempt fails has emitted exactly r
\* failed-attempt notifications when the final failure is raised.
C2_Original ==
  /\ rpc = "failed" => rNotified = retry
  /\ dpc = "failed" => dNotified = retry

\* C2 amended: onFailedAttempt runs after every failed attempt, the final
\* one included, so a pipeline whose every attempt fails has emitted r + 1
\* notifications when the final failure is raised; at every moment the
\* notifications number the attempts that have failed.
C2_NotifiedAfterEveryFailedAttempt ==
  /\ rpc = "failed" => rNotified = retry + 1
  /\ dpc = "failed" => dNotified = retry + 1 /\ dLogged = 1
  /\ rNotified = rAttempts - (IF rpc \in {"inflight", "ok"} THEN 1 ELSE 0)
  /\ dNotified = dAttempts - (IF dpc \in {"inflight", "ok"} THEN 1 ELSE 0)

C2_Witness == rpc = "failed" /\ retry = 2 /\ rNotified = 3 /\ rAttempts = 3

C2_WitnessDownload == dpc = "failed" /\ retry = 2 /\ dNotified = 3

\* The header or field of a config that a resolver's value ends up in.
UsesValue(cfg, kind, e) ==
  CASE kind = "proxy" -> cfg.proxy = Resolve("proxy", e)
    [] kind = "auth" -> cfg.auth = Resolve("auth", e)
    [] kind = "userAgent" ->
         /\ "User-Agent" \in DOMAIN cfg.headers
         /\ cfg.headers["User-Agent"] = UserAgentValue(e)
    [] kind = "headers" ->
         /\ "X-Token" \in DOMAIN cfg.headers
         /\ cfg.headers["X-Token"] = HeadersValue(e)["X-Token"]

C4_Original ==
  (hasHook /\ rpc = "inflight") => rHookCalls = rAttempts

\* C4 amended: a configured pre-request hook runs exactly once per Request,
\* before the first network attempt; it does not run again before a retry.
C4_HookOncePerRequest ==
  /\ (hasHook /\ rAttempts >= 1) => rHookCalls = 1 /\ rHookAt = 0
  /\ ~hasHook => rHookCalls = 0

C4_Witness ==
  /\ hasHook
  /\ rpc = "inflight"
  /\ rAttempts = 3
  /\ rHookCalls = 1
  /\ "Accept" \in DOMAIN rUsed.headers
  /\ rUsed.headers["Accept"] = "hooked"

\* The task a call has just appended to the queue.
Pushed == queue[Len(queue)]

PushedOne == Len(queue) = Len(lastBefore) + 1 /\ queue = Append(lastBefore, Pushed)

\* C5: one follow with a non-empty argument while the crawler is active adds
\* exactly one task to the queue, a request task, whose Reference header is
\* the url of the originating request unless the descriptor's own headers
\* hold a Reference header, which then wins.
C5_FollowPushesOneRequest ==
  (lastOp = "follow" /\ lastActive /\ Truthy(lastNextUrl)) =>
    /\ PushedOne
    /\ Pushed.type = "request"
    /\ Pushed.url = lastNextUrl.url
    /\ "Reference" \in DOMAIN The(Pushed.headers)
    /\ The(Pushed.headers)["Reference"] =
         IF /\ lastNextUrl.form = "object"
            /\ "Reference" \in DOMAIN OrEmpty(lastNextUrl.headers)
         THEN The(lastNextUrl.headers)["Reference"]
         ELSE response.config.url

C5_Witness ==
  /\ lastOp = "follow"
  /\ lastActive
  /\ lastNextUrl.form = "object"
  /\ lastNextUrl.headers = Some([k \in {"Reference"} |-> "elsewhere"])
  /\ Len(queue) = 2
  /\ The(Pushed.headers)["Reference"] = "elsewhere"

\* C6: a follow made while the crawler is not active, or with an empty
\* argument, leaves the queue as it was.
C6_FollowNoOp ==
  (lastOp = "follow" /\ (~lastActive \/ ~Truthy(lastNextUrl))) =>
    queue = lastBefore

C6_Witness ==
  /\ lastOp = "follow"
  /\ ~lastActive
  /\ Truthy(lastNextUrl)
  /\ Len(queue) = 1

\* C7 as stated: with crawler.active false, a call of follow, retry or
\* downloadInQueue leaves the queue unchanged.
C7_Claim ==
  (lastOp \in {"follow", "retry", "downloadInQueue"} /\ ~lastActive) =>
    queue = lastBefore

\* C8 as stated: downloadInQueue adds exactly one download task whose option
\* headers hold no Accept header, whatever options the caller passes.
C8_Original ==
  lastOp = "downloadInQueue" =>
    /\ PushedOne
    /\ Pushed.type = "download"
    /\ "Accept" \notin DOMAIN The(Pushed.options)["headers"]

\* C8 amended: downloadInQueue adds exactly one download task; when the
\* caller's options hold no headers of their own, its option headers are the
\* originating config's headers without Accept; when they do, the caller's
\* headers replace the inherited ones whole, Accept included if they hold it.
C8_DownloadInQueueHeaders ==
  lastOp = "downloadInQueue" =>
    /\ PushedOne
    /\ Pushed.type = "download"
    /\ IF "headers" \in DOMAIN OrEmpty(lastOptions)
       THEN The(Pushed.options)["headers"] = The(lastOptions)["headers"]
       ELSE /\ "Accept" \notin DOMAIN The(Pushed.options)["headers"]
            /\ The(Pushed.options)["headers"] =
                 Delete(response.config.headers, "Accept")

C8_Witness ==
  /\ lastOp = "downloadInQueue"
  /\ lastOptions = Some([k \in {"proxy"} |-> Some(CallerProxy)])
  /\ "Accept" \in DOMAIN response.config.headers
  /\ "Accept" \notin DOMAIN The(Pushed.options)["headers"]
  /\ The(Pushed.options)["proxy"] = Some(CallerProxy)

\* The first event of the current download attempt.
FirstSeen == IF dSeen = <<>> THEN Undef ELSE dSeen[1]

\* C9: in a download attempt where the source stream and the destination
\* stream both raise an error, in either order, the attempt's promise rejects
\* with the error raised first and the later error leaves it so; the attempt
\* is counted as failed once.
C9_FirstStreamErrorWins ==
  /\ (Seen("src") /\ Seen("dst") /\ FirstSeen \in {"src", "dst"}) =>
       dP = FirstSeen /\ dOut = FirstSeen
  /\ dNotified <= dAttempts

C9_Witness ==
  /\ dSeen = <<"dst", "src">>
  /\ dError = "src"
  /\ dOut = "dst"

C9_WitnessSrcFirst ==
  /\ dSeen = <<"src", "dst">>
  /\ dOut = "src"

\* C10 as stated: every network operation in flight when cancel() is called,
\* a Request's network call or a Download's streams, ends by rejecting with
\* the cancellation.
C10_Claim ==
  /\ (rAtCancel /\ rpc # "inflight") => rErr = "cancel" /\ rpc # "ok"
  /\ (dAtCancel /\ dSettledAfterCancel # Undef) => dSettledAfterCancel = "cancel"

\* The Request half of C10, which holds.
C10_RequestsAbort ==
  (rAtCancel /\ rpc # "inflight") => rErr = "cancel" /\ rpc # "ok"

\* C11: cancellation is never reset, and once cancel() has been called no
\* Request produces a response: a network call made or still in flight after
\* it fails with the cancellation.
C11_CancellationIsTerminal ==
  [][cancelled =>
       /\ cancelled'
       /\ rResult'.status = "response" => rResult.status = "response"
       /\ (rpc = "inflight" /\ rpc' # "inflight") => rErr' = "cancel"]_vars

C11_Witness ==
  /\ cancelled
  /\ ~rAtCancel
  /\ retry = 0
  /\ rAttempts = 1
  /\ rpc = "failed"
  /\ rResult.error = "cancel"

\* C13: retry() on a response pushes exactly one new request task with the
\* method, url, body and headers of the request that produced the response;
\* the tasks already queued stay, so repeated calls queue repeated tasks.
C13_RetryPushesTheSameRequest ==
  lastOp = "retry" =>
    /\ PushedOne
    /\ Pushed.type = "request"
    /\ Pushed.method = response.config.method
    /\ Pushed.url = response.config.url
    /\ Pushed.body = response.config.data
    /\ Pushed.headers = Some(response.config.headers)

C13_Witness ==
  /\ lastOp = "retry"
  /\ response.config.method = "POST"
  /\ response.config.data = "payload"
  /\ Len(queue) = 2
  /\ queue[1] = queue[2]

\* Whether one of the five sources of the request's headers defines a name.
SourcesDefine(name) ==
  \/ name = "Reference"
  \/ name \in DOMAIN OrEmpty(defaultHeaders)
  \/ name \in DOMAIN OrEmpty(rArgs.httpHeaders)
  \/ name \in DOMAIN rVals["headers"]
  \/ name = "User-Agent" /\ rVals["userAgent"] # None

\* The value of the highest source that defines a name.
HighestSource(name) ==
  IF name = "User-Agent" /\ rVals["userAgent"] # None
    THEN The(rVals["userAgent"])
  ELSE IF name \in DOMAIN rVals["headers"] THEN rVals["headers"][name]
  ELSE IF name \in DOMAIN OrEmpty(rArgs.httpHeaders)
    THEN The(rArgs.httpHeaders)[name]
  ELSE IF name \in DOMAIN OrEmpty(defaultHeaders) THEN The(defaultHeaders)[name]
  ELSE rArgs.url

\* C14: the headers sent with a request hold exactly the names that one of
\* the five sources defines, each with the value of the highest source that
\* defines it: default Reference (the url) < provider default headers < the
\* task's headers < the headers resolver's answer < the resolved User-Agent.
C14_HeaderPrecedence ==
  rpc = "inflight" =>
    /\ DOMAIN rUsed.headers = {n \in HeaderNames : SourcesDefine(n)}
    /\ \A n \in DOMAIN rUsed.headers : rUsed.headers[n] = HighestSource(n)

C14_Witness ==
  /\ rpc = "inflight"
  /\ DOMAIN OrEmpty(defaultHeaders) = HeaderNames
  /\ DOMAIN OrEmpty(rArgs.httpHeaders) = HeaderNames
  /\ DOMAIN rVals["headers"] = {"Reference", "User-Agent"}
  /\ rVals["userAgent"] # None
  /\ rUsed.headers = [n \in HeaderNames |->
                        IF n = "Reference" THEN "resolver"
                        ELSE IF n = "Accept" THEN "caller"
                        ELSE UserAgentValue(0)]

\* C17: within one Request every configured resolver call is started before
\* any resolver call has completed.
C17_Claim ==
  \A i, j \in 1..Len(rStarts) :
    (i < j /\ rStarts[i][1] = "done") => rStarts[j][1] # "start"

\* C18: an attempt that ends by timeout is accounted like one that ends by a
\* network or stream error, in both pipelines: after it the notifications
\* equal the attempts made, the pipeline retries while fewer than retry + 1
\* attempts were made, and fails with that attempt's error otherwise.
C18_TimeoutLikeNetworkError ==
  /\ (rpc \in {"retrying", "failed"} /\ rErr \in {"timeout", "network"}) =>
       /\ rNotified = rAttempts
       /\ rpc = "failed" <=> rAttempts = retry + 1
       /\ rpc = "failed" => rResult.error = rErr
  /\ (dpc \in {"retrying", "failed"} /\ dOut \in {"timeout", "src", "dst"}) =>
       /\ dNotified = dAttempts
       /\ dpc = "failed" <=> dAttempts = retry + 1
       /\ dpc = "failed" => dResult = dOut

C18_Witness ==
  /\ retry = 2
  /\ rpc = "failed"
  /\ rErr = "timeout"
  /\ rAttempts = 3
  /\ rNotified = 3
  /\ rResult.error = "timeout"

C18_WitnessDownload ==
  /\ retry = 1
  /\ dpc = "retrying"
  /\ dOut = "timeout"
  /\ dAttempts = 1
  /\ dNotified = 1

\* The stream events of the current download attempt, in order.
StreamEventsSeen == SelectSeq(dSeen, LAMBDA ev : ev # "timeout")

\* C19: a download attempt settles once: its promise, and the promise
\* pTimeout makes of it, never change after settling within the attempt. The
\* promise resolves exactly when finish is the first stream event, rejects
\* with the first event's error otherwise, and the attempt succeeds only if
\* its promise resolved.
C19_DownloadAttemptSettlesOnce ==
  /\ [](/\ dP = (IF StreamEventsSeen = <<>> THEN "pending"
                 ELSE IF StreamEventsSeen[1] = "finish" THEN "ok"
                 ELSE StreamEventsSeen[1])
        /\ dOut = "ok" => dP = "ok"
        /\ dpc = "ok" => dOut = "ok")
  /\ [][dAttempts' = dAttempts =>
          /\ dP # "pending" => dP' = dP
          /\ dOut # "pending" => dOut' = dOut]_vars

C19_Witness ==
  /\ dSeen = <<"finish", "src", "dst">>
  /\ dError = "src"
  /\ dP = "ok"
  /\ dpc = "ok"

C19_WitnessFinishAfterError ==
  /\ dSeen = <<"dst", "finish">>
  /\ dP = "dst"
  /\ dpc = "failed"

\* C20: when an attempt of a request or download succeeds, the pipeline ends
\* there: the attempts made are at most retry + 1, the failed-attempt
\* notifications are one fewer than the attempts, the result is that
\* attempt's (for a request, the response to the config that attempt sent),
\* and no attempt, notification or change of the result follows.
C20_FirstSuccessEndsThePipeline ==
  /\ [](/\ rResult.status = "response" =>
             /\ rpc = "ok"
             /\ rAttempts \in 1..(retry + 1)
             /\ rNotified = rAttempts - 1
             /\ rResult.config = rUsed
        /\ dResult = "ok" =>
             /\ dpc = "ok"
             /\ dAttempts \in 1..(retry + 1)
             /\ dNotified = dAttempts - 1
             /\ dOut = "ok")
  /\ [][/\ rpc = "ok" => UNCHANGED <<rpc, rAttempts, rNotified, rResult, rUsed>>
        /\ dpc = "ok" => UNCHANGED <<dpc, dAttempts, dNotified, dResult>>]_vars

C20_Witness ==
  /\ retry = 2
  /\ rpc = "ok"
  /\ rAttempts = 2
  /\ rNotified = 1
  /\ rResult.status = "response"

C20_WitnessDownload ==
  /\ retry = 2
  /\ dpc = "ok"
  /\ dAttempts = 3
  /\ dNotified = 2
  /\ dResult = "ok"

\* C12 as stated: no attempt of a task is active together with another; when
\* an attempt of a download is in flight, the streams of every earlier attempt
\* have stopped.
C12_Claim == dpc = "inflight" => dOrphans = 0

\* C15: in every state of a crawl run the scheduler's count of in-flight
\* pipeline executions is the number of executions in flight and is at most
\* the concurrency ceiling, for every ceiling from 1 up, tasks injected by
\* follow, retry and downloadInQueue included.
C15_InFlightWithinCeiling ==
  /\ inFlightCount = Cardinality(flying)
  /\ inFlightCount <= concurrencyLimit

C15_Witness ==
  /\ concurrencyLimit = 2
  /\ inFlightCount = 2
  /\ queue # <<>>
  /\ lastOp = "retry"
  /\ \E f \in flying : f.task.type = "download"

\* Each task popped so far has at most one execution on record, and each
\* execution on record is of a task popped.
ExecutedOnce ==
  /\ \A k \in 1..Len(executed) : executed[k].id \in 1..started
  /\ \A k, l \in 1..Len(executed) : executed[k].id = executed[l].id => k = l

\* C16: a crawl run that injects finitely many tasks reaches quiescence and
\* is declared done; it is declared done only with the queue empty and
\* nothing in flight; by then every task pushed, seeded or injected, was
\* popped and executed exactly once, whatever the order of dispatch and
\* completion and whether executions succeeded or failed; no step loses a
\* task that was pushed.
C16_QuiescenceAfterEveryTaskOnce ==
  /\ <>finished
  /\ [](finished => /\ queue = <<>>
                    /\ inFlightCount = 0
                    /\ flying = {}
                    /\ Len(executed) = started)
  /\ []ExecutedOnce
  /\ [][/\ started' + Len(queue') >= started + Len(queue)
        /\ started' + Len(queue') <= started + Len(queue) + 1
        /\ started' \in {started, started + 1}]_vars

C16_Witness ==
  /\ finished
  /\ concurrencyLimit = 2
  /\ started = 4
  /\ Len(executed) = 4
  /\ executed[1].id = 2
  /\ \E k \in 1..4 : executed[k].outcome = "failed"

====
